---- MODULE Spec2Model ----
(***************************************************************************)
(* MODIS LAI reconstruction of conversion_to_ALMA.ipynb (get_LAI and its   *)
(* helpers), stages 2 to 4:                                                *)
(*   get_spatial_weighted_LAI  ->  interpolate_NA_LAI                      *)
(*   check_data_availability_LAI                                           *)
(*                                                                         *)
(* Numbers are exact rationals <<numerator, denominator>> in lowest terms  *)
(* with a positive denominator; numpy's NaN is the pair <<0, 0>>.  The     *)
(* rounding of IEEE doubles is not modelled.  Dates are day numbers        *)
(* counted from 2000-01-01 (day 0).                                        *)
(***************************************************************************)
EXTENDS Integers, Sequences, FiniteSets, TLC

\* ------------------------------------------------------------------------
\* Bounds of the model
\* ------------------------------------------------------------------------
\* largest number of time steps of the pixel grids
MaxSteps == 6

\* largest number of calendar years the observation timestamps span
MaxYears == 3

\* largest length of an array given to rolling_mean on its own
MaxLen == 15

\* largest number of year rows of a matrix given to smoothing_LAI on its own
MaxRows == 2

\* longest array given to replace_negative_with_mean_of_nearest
MaxArr == 5

\* largest number of stations of station_dict
MaxStations == 4

\* ------------------------------------------------------------------------
\* Program constants
\* ------------------------------------------------------------------------
\* pixel_no = [7, 8, 9, 12, 13, 14, 17, 18, 19]: nine pixel slots
NPix == 9

\* qc_flags of get_spatial_weighted_LAI
qc_flags == {0, 2, 24, 26, 32, 34, 56, 58}

\* temp_array.reshape(-1, 46): observations per year
SlotsPerYear == 46

\* freq='8D'
CalendarStep == 8

\* selected_dates: all_time.year >= 2003
DatesFromYear == 2003

\* selected_dates: all_time.year <= 2023
DatesToYear == 2023

\* ------------------------------------------------------------------------
\* Rational arithmetic with NaN (float64 arithmetic of numpy, exact)
\* ------------------------------------------------------------------------
NaN == <<0, 0>>

IsNaN(a) == a[2] = 0

Abs(n) == IF n < 0 THEN -n ELSE n

RECURSIVE GCD(_, _)
GCD(a, b) == IF b = 0 THEN a ELSE GCD(b, a % b)

\* the rational n/d (d # 0) in lowest terms with a positive denominator
Rat(n, d) ==
    LET g == GCD(Abs(n), Abs(d))
        s == IF d < 0 THEN -1 ELSE 1
    IN  <<(s * n) \div g, (s * d) \div g>>

RInt(n) == <<n, 1>>

Zero == <<0, 1>>

One == <<1, 1>>

\* a + b, over the least common denominator
RAdd(a, b) ==
    IF IsNaN(a) \/ IsNaN(b) THEN NaN
    ELSE LET g == GCD(a[2], b[2])
         IN  Rat(a[1] * (b[2] \div g) + b[1] * (a[2] \div g),
                 (a[2] \div g) * b[2])

RNeg(a) == <<-a[1], a[2]>>

RSub(a, b) == RAdd(a, RNeg(b))

\* a * b, common factors cancelled before multiplying
RMul(a, b) ==
    IF IsNaN(a) \/ IsNaN(b) THEN NaN
    ELSE LET g1 == GCD(Abs(a[1]), b[2])
             g2 == GCD(Abs(b[1]), a[2])
         IN  Rat((a[1] \div g1) * (b[1] \div g2),
                 (a[2] \div g2) * (b[2] \div g1))

\* a / b; the only division by zero the program performs is NaN / 0 (a row
\* whose nansum of 1/sd^2 is 0 has only NaN numerators), which is NaN
RDiv(a, b) ==
    IF IsNaN(a) \/ IsNaN(b) \/ b[1] = 0 THEN NaN
    ELSE RMul(a, Rat(b[2], b[1]))

\* a < b as numpy compares: any comparison with NaN is False
RLess(a, b) ==
    /\ ~IsNaN(a)
    /\ ~IsNaN(b)
    /\ a[1] * b[2] < b[1] * a[2]

\* a > b as numpy compares
RGreater(a, b) == RLess(b, a)

\* sum of the non-NaN entries of s[1..n] (np.nansum): 0 when there is none
RECURSIVE NanSumTo(_, _)
NanSumTo(s, n) ==
    IF n = 0 THEN Zero
    ELSE IF IsNaN(s[n]) THEN NanSumTo(s, n - 1)
    ELSE RAdd(NanSumTo(s, n - 1), s[n])

nansum(s) == NanSumTo(s, Len(s))

\* number of non-NaN entries of s
CountValid(s) == Cardinality({i \in 1..Len(s) : ~IsNaN(s[i])})

\* np.nanmean with an all-NaN row counted as 0
nanmean_zero(s) ==
    IF CountValid(s) = 0 THEN Zero
    ELSE RDiv(nansum(s), RInt(CountValid(s)))

\* mean of the non-NaN entries of s (np.nanmean): NaN (and a RuntimeWarning,
\* not an exception) when every entry is NaN
nanmean(s) ==
    IF CountValid(s) = 0 THEN NaN
    ELSE RDiv(nansum(s), RInt(CountValid(s)))

\* ------------------------------------------------------------------------
\* State
\* ------------------------------------------------------------------------
VARIABLES
    pc,             \* position in the pipeline
    lai_pixel,      \* [time step][pixel slot] LAI grid (mutated in place)
    sd_pixel,       \* [time step][pixel slot] standard-deviation grid
    qc_pixel,       \* [time step][pixel slot] quality-control grid
    weighted_lai,   \* result of get_spatial_weighted_LAI
    filled_lai,     \* result of interpolate_NA_LAI
    lai_time,       \* observation timestamps of the reference pixel
    all_time,       \* calendar built by check_data_availability_LAI
    temp_array,     \* filled_lai copied onto the calendar
    gap_free_lai,   \* flattened [year, 46] matrix it returns
    selected_dates, \* dates it returns
    ret,            \* what it returned: "tuple", "None", "" (nothing yet)
    err,            \* exception that ended the run ("" while there is none)
    array,          \* argument of rolling_mean
    roll_result,    \* array rolling_mean returns (its result)
    column_means,   \* raw per-slot mean of smoothing_LAI
    smoothed_column_means,  \* its Savitzky-Golay smoothing
    anomaly,        \* gap_free_lai - column_means, flattened
    smoothed_lai,   \* series smoothing_LAI returns
    start_date,     \* first half-hour requested from get_LAI
    end_date,       \* last half-hour requested from get_LAI
    lai_array,      \* array get_LAI returns
    lai_file,       \* glob result: the LAI tables found (a list)
    qc_file,        \* glob result: the QC tables found
    sd_file,        \* glob result: the standard-deviation tables found
    no_tsteps,      \* number of time steps read per pixel (-1: not yet)
    RH,             \* array given to replace_negative_with_mean_of_nearest
    station_dict,   \* the stations of the batch, in the order of the loop
    started,        \* positions of the stations whose iteration began
    completed       \* positions of the stations whose file was saved

gridVars == <<lai_pixel, sd_pixel, qc_pixel>>

calVars == <<lai_time, all_time, temp_array, gap_free_lai, selected_dates, ret>>

rollVars == <<array, roll_result>>

smoothVars == <<column_means, smoothed_column_means, anomaly, smoothed_lai>>

reqVars == <<start_date, end_date, lai_array>>

fileVars == <<lai_file, qc_file, sd_file, no_tsteps>>

loopVars == <<station_dict, started, completed>>

vars ==
    <<pc, gridVars, weighted_lai, filled_lai, calVars, err, rollVars,
      smoothVars, reqVars, fileVars, RH, loopVars>>

\* no table has been looked for
NoFiles ==
    /\ lai_file = <<>>
    /\ qc_file = <<>>
    /\ sd_file = <<>>
    /\ no_tsteps = -1

\* no array is being repaired
NoArr == RH = <<>>

\* no batch of stations is running
NoLoop ==
    /\ station_dict = <<>>
    /\ started = {}
    /\ completed = {}

\* ------------------------------------------------------------------------
\* Inputs: pixel grids of 1..MaxSteps rows of NPix cells
\* ------------------------------------------------------------------------
Cell(l, s, q) == [lai |-> l, sd |-> s, qc |-> q]

\* reliable cell: LAI 3.0, sd 0.5, QC 0
GoodCell == Cell(RInt(3), Rat(1, 2), 0)

\* disallowed QC flag
BadQcCell == Cell(RInt(3), Rat(1, 2), 255)

\* LAI above the ceiling of 10 with an accepted QC flag and a usable sd
CeilCell == Cell(RInt(11), RInt(1), 0)

\* reliable cell with another accepted flag and sd, carrying a negative LAI
NegCell == Cell(RInt(-9), RInt(1), 2)

Uniform(c) == [p \in 1..NPix |-> c]

WithFirst(c1, c) == [p \in 1..NPix |-> IF p = 1 THEN c1 ELSE c]

InputRows ==
    { Uniform(GoodCell), Uniform(BadQcCell), WithFirst(CeilCell, NegCell) }

\* ------------------------------------------------------------------------
\* get_spatial_weighted_LAI
\* ------------------------------------------------------------------------
\* mask = np.isin(qc_pixel, qc_flags); sd_pixel[~mask] = nan;
\* sd_pixel[sd_pixel < 0.1] = nan
MaskedSd(sd, qc) ==
    [t \in DOMAIN sd |-> [p \in 1..NPix |->
        IF qc[t][p] \notin qc_flags THEN NaN
        ELSE IF RLess(sd[t][p], Rat(1, 10)) THEN NaN
        ELSE sd[t][p]] \o <<>>] \o <<>>

\* lai_pixel[~mask] = nan; lai_pixel[np.isnan(sd_pixel)] = nan;
\* lai_pixel[lai_pixel > 10] = nan   (msd is the sd grid already masked)
MaskedLai(lai, msd, qc) ==
    [t \in DOMAIN lai |-> [p \in 1..NPix |->
        IF qc[t][p] \notin qc_flags THEN NaN
        ELSE IF IsNaN(msd[t][p]) THEN NaN
        ELSE IF RGreater(lai[t][p], RInt(10)) THEN NaN
        ELSE lai[t][p]] \o <<>>] \o <<>>

\* 1 / sd_pixel**2 of one row
InvVar(sdrow) ==
    [p \in 1..NPix |-> RDiv(One, RMul(sdrow[p], sdrow[p]))] \o <<>>

\* weights = (1 / sd_pixel**2) / np.nansum(1 / sd_pixel**2, axis=1)
Weights(sdrow) ==
    LET inv == InvVar(sdrow)
        total == nansum(inv)
    IN  [p \in 1..NPix |-> RDiv(inv[p], total)]

\* weighted_lai_values = lai_pixel * weights;
\* weighted_lai = np.nanmean(weighted_lai_values, axis=1)
WeightedRow(lairow, sdrow) ==
    LET weights == Weights(sdrow)
    IN  nanmean([p \in 1..NPix |-> RMul(lairow[p], weights[p])])

SpatialWeight ==
    /\ pc = "weight"
    /\ LET msd == MaskedSd(sd_pixel, qc_pixel)
           mlai == MaskedLai(lai_pixel, msd, qc_pixel)
       IN  /\ sd_pixel' = msd
           /\ lai_pixel' = mlai
           /\ weighted_lai' =
                  [t \in DOMAIN mlai |-> WeightedRow(mlai[t], msd[t])]
    /\ pc' = "interp"
    /\ UNCHANGED <<fileVars, RH, loopVars>>
    /\ UNCHANGED <<qc_pixel, filled_lai, calVars, err, rollVars, smoothVars,
                   reqVars>>

\* ------------------------------------------------------------------------
\* interpolate_NA_LAI
\* ------------------------------------------------------------------------
\* x[~nan_mask]: the indices of the non-NaN entries of s, ascending
RECURSIVE ValidIndexTo(_, _)
ValidIndexTo(s, n) ==
    IF n = 0 THEN <<>>
    ELSE IF IsNaN(s[n]) THEN ValidIndexTo(s, n - 1)
    ELSE Append(ValidIndexTo(s, n - 1), n)

ValidIndex(s) == ValidIndexTo(s, Len(s))

\* interp1d(kind='cubic') raises ValueError when it is given fewer than
\* order + 1 = 4 points
MinPoints == 4

\* an interpolator that accepts three points
InterpRaises_three(s) == CountValid(s) < MinPoints - 1

InterpRaises(s) == CountValid(s) < MinPoints

\* interp1d(kind='cubic') is the interpolating cubic spline with not-a-knot
\* end conditions: a piecewise cubic, twice continuously differentiable,
\* whose breakpoints are the data sites xs[3] .. xs[n-2].  It is written in
\* the basis 1, d, d^2, d^3 (d = x - xs[1]) and (x - xs[k])^3 for x > xs[k],
\* one per breakpoint; column j of the basis at x:
SplineBasis(xs, j, x) ==
    LET d == x - xs[1]
    IN  IF j = 1 THEN 1
        ELSE IF j = 2 THEN d
        ELSE IF j = 3 THEN d * d
        ELSE IF j = 4 THEN d * d * d
        ELSE IF x > xs[j - 2]
             THEN (x - xs[j - 2]) * (x - xs[j - 2]) * (x - xs[j - 2])
             ELSE 0

\* Gauss-Jordan elimination of the n x (n+1) system M from column k on
RECURSIVE GaussJordan(_, _, _)
GaussJordan(M, k, n) ==
    IF k > n THEN M
    ELSE LET piv == M[k][k]
             prow == [j \in 1..(n + 1) |-> RDiv(M[k][j], piv)] \o <<>>
             M2 == [i \in 1..n |->
                     IF i = k THEN prow
                     ELSE LET f == M[i][k]
                          IN  [j \in 1..(n + 1) |->
                                  RSub(M[i][j], RMul(f, prow[j]))] \o <<>>]
                   \o <<>>
         IN  GaussJordan(M2, k + 1, n)

\* coefficients of the spline through (xs[i], ys[i]), i = 1..Len(xs)
SplineCoef(xs, ys) ==
    LET n == Len(xs)
        M0 == [i \in 1..n |->
                 [j \in 1..(n + 1) |->
                     IF j <= n THEN RInt(SplineBasis(xs, j, xs[i]))
                     ELSE ys[i]] \o <<>>] \o <<>>
        R == GaussJordan(M0, 1, n)
    IN  [j \in 1..n |-> R[j][n + 1]] \o <<>>

RECURSIVE SplineSum(_, _, _, _)
SplineSum(xs, coef, x, j) ==
    IF j = 0 THEN Zero
    ELSE RAdd(SplineSum(xs, coef, x, j - 1),
              RMul(coef[j], RInt(SplineBasis(xs, j, x))))

\* interp_func(x): the spline evaluated at x; outside [xs[1], xs[n]] the
\* first or last cubic piece is continued (fill_value="extrapolate")
SplineAt(xs, coef, x) == SplineSum(xs, coef, x, Len(xs))

\* the fill without extrapolation: NaN outside the known indices
CubicFill_inside(s) ==
    LET xs == ValidIndex(s)
        ys == [k \in 1..Len(xs) |-> s[xs[k]]] \o <<>>
        coef == SplineCoef(xs, ys)
    IN  [i \in 1..Len(s) |->
            IF IsNaN(s[i]) /\ i >= xs[1] /\ i <= xs[Len(xs)]
            THEN SplineAt(xs, coef, i) ELSE s[i]] \o <<>>

\* filled_lai[nan_mask] = interp_func(x)[nan_mask]
CubicFill(s) ==
    LET xs == ValidIndex(s)
        ys == [k \in 1..Len(xs) |-> s[xs[k]]] \o <<>>
        coef == SplineCoef(xs, ys)
    IN  [i \in 1..Len(s) |->
            IF IsNaN(s[i]) THEN SplineAt(xs, coef, i) ELSE s[i]] \o <<>>

\* the cap left out
CapNegative_none(s) == s

\* filled_lai[filled_lai < 0] = 0
CapNegative(s) ==
    [i \in 1..Len(s) |-> IF RLess(s[i], Zero) THEN Zero ELSE s[i]]

\* a variant that zeroes the first observation instead of the last
ZeroLast_first(s) == [i \in 1..Len(s) |-> IF i = 1 THEN Zero ELSE s[i]]

\* filled_lai[-1] = 0
ZeroLast(s) == [i \in 1..Len(s) |-> IF i = Len(s) THEN Zero ELSE s[i]]

interpolate_NA_LAI(unfilled_lai) ==
    ZeroLast(CapNegative(CubicFill(unfilled_lai)))

InterpolateNA ==
    /\ pc = "interp"
    /\ IF InterpRaises(weighted_lai)
       THEN /\ pc' = "error"
            /\ err' = "ValueError"
            /\ UNCHANGED filled_lai
       ELSE /\ pc' = "filled"
            /\ filled_lai' = interpolate_NA_LAI(weighted_lai)
            /\ UNCHANGED err
    /\ UNCHANGED <<fileVars, RH, loopVars>>
    /\ UNCHANGED <<gridVars, weighted_lai, calVars, rollVars, smoothVars,
                   reqVars>>

\* ------------------------------------------------------------------------
\* Dates (pandas Timestamps at midnight): day numbers from 2000-01-01
\* ------------------------------------------------------------------------
IsLeap(y) == (y % 4 = 0) /\ ((y % 100 # 0) \/ (y % 400 = 0))

DaysInYear(y) == IF IsLeap(y) THEN 366 ELSE 365

\* day number of January 1 of year y (y >= 2000)
RECURSIVE Jan1(_)
Jan1(y) == IF y <= 2000 THEN 0 ELSE Jan1(y - 1) + DaysInYear(y - 1)

\* day number of December 31 of year y
Dec31(y) == Jan1(y) + DaysInYear(y) - 1

MinOf(S) == CHOOSE x \in S : \A y \in S : x <= y

MaxOf(S) == CHOOSE x \in S : \A y \in S : x >= y

\* .year of a date
RECURSIVE YearFrom(_, _)
YearFrom(d, y) == IF d <= Dec31(y) THEN y ELSE YearFrom(d, y + 1)

YearOf(d) == YearFrom(d, 2000)

\* a range that runs one step past its end
date_range_past_end(start, end, step) ==
    [k \in 1..((end - start) \div step + 2) |-> start + step * (k - 1)]
    \o <<>>

\* pd.date_range(start, end, freq): start, start + step, ... up to end
date_range(start, end, step) ==
    [k \in 1..((end - start) \div step + 1) |-> start + step * (k - 1)]
    \o <<>>

\* ------------------------------------------------------------------------
\* check_data_availability_LAI
\* ------------------------------------------------------------------------
\* for year in range(first, last + 1): all_tsteps.extend(year_dates)
RECURSIVE CalendarOf(_, _)
CalendarOf(first, last) ==
    IF first > last THEN <<>>
    ELSE date_range(Jan1(first), Dec31(first), CalendarStep)
             \o CalendarOf(first + 1, last)

\* the calendar of the years from the first to the last observation year
BuildCalendar(lt) ==
    LET years == {YearOf(lt[k]) : k \in 1..Len(lt)}
    IN  CalendarOf(MinOf(years), MaxOf(years))

\* result = all_time.isin(lai_time)
IsIn(at, lt) == [i \in 1..Len(at) |-> \E k \in 1..Len(lt) : lt[k] = at[i]]

\* one pass of the copy loop, at calendar entry i:
\*   if val: temp_array[i] = filled_lai[fill_index]; fill_index += 1
\* st.ok is FALSE once filled_lai[fill_index] was outside filled_lai
CopyStep(result, filled, st, i) ==
    IF ~st.ok \/ ~result[i] THEN st
    ELSE IF st.fill_index >= Len(filled) THEN [st EXCEPT !.ok = FALSE]
    ELSE [arr |-> [st.arr EXCEPT ![i] = filled[st.fill_index + 1]],
          fill_index |-> st.fill_index + 1,
          ok |-> TRUE]

\* the passes lo..hi of the copy loop, in order, from the loop state st;
\* no pass runs after the one that raised
RECURSIVE CopyLoop(_, _, _, _, _)
CopyLoop(result, filled, st, lo, hi) ==
    IF lo > hi THEN st
    ELSE IF lo = hi THEN CopyStep(result, filled, st, lo)
    ELSE LET mid == (lo + hi) \div 2
             half == CopyLoop(result, filled, st, lo, mid)
         IN  IF ~half.ok THEN half
             ELSE CopyLoop(result, filled, half, mid + 1, hi)

\* temp_array = np.full(result.shape, np.nan); fill_index = 0; the loop
CopyOntoCalendar(result, filled) ==
    CopyLoop(result, filled,
             [arr |-> [j \in 1..Len(result) |-> NaN] \o <<>>,
              fill_index |-> 0, ok |-> TRUE],
             1, Len(result))

\* a slice that drops the row of the first year only
DropFirstLastYear_first(arr) ==
    LET rows == Len(arr) \div SlotsPerYear
    IN  IF rows <= 1 THEN <<>>
        ELSE SubSeq(arr, SlotsPerYear + 1, rows * SlotsPerYear)

\* temp_array.reshape(-1, 46)[1:-1], flattened: the rows of all years but
\* the first and the last
DropFirstLastYear(arr) ==
    LET rows == Len(arr) \div SlotsPerYear
    IN  IF rows <= 2 THEN <<>>
        ELSE SubSeq(arr, SlotsPerYear + 1, (rows - 1) * SlotsPerYear)

\* all_time[(all_time.year >= 2003) & (all_time.year <= 2023)]
SelectDates(at) ==
    SelectSeq(at, LAMBDA d : YearOf(d) >= DatesFromYear
                             /\ YearOf(d) <= DatesToYear)

\* np.where(np.isnan(selected_lai_flatten))[0]: the indices lo..hi of v that
\* hold NaN, ascending
RECURSIVE NaNPositionsIn(_, _, _)
NaNPositionsIn(v, lo, hi) ==
    IF lo > hi THEN <<>>
    ELSE IF lo = hi THEN (IF IsNaN(v[lo]) THEN <<lo>> ELSE <<>>)
    ELSE LET mid == (lo + hi) \div 2
         IN  NaNPositionsIn(v, lo, mid) \o NaNPositionsIn(v, mid + 1, hi)

NaNPositions(v) == NaNPositionsIn(v, 1, Len(v))

\* a pass that copies the following value instead of averaging
FillStep_following(st, p) ==
    LET v == st.arr
    IN  IF ~st.ok THEN st
        ELSE IF p = Len(v) THEN [st EXCEPT !.ok = FALSE]
        ELSE [arr |-> [v EXCEPT ![p] = v[p + 1]], ok |-> TRUE]

\* one pass of the fill loop, at position p, in place:
\*   v[position] = (v[position-1] + v[position+1]) / 2
\* Index -1 (before the first cell) is the last cell in Python; an index
\* past the end raises IndexError (st.ok becomes FALSE)
FillStep(st, p) ==
    LET v == st.arr
        before == IF p = 1 THEN Len(v) ELSE p - 1
    IN  IF ~st.ok THEN st
        ELSE IF p = Len(v) THEN [st EXCEPT !.ok = FALSE]
        ELSE [arr |-> [v EXCEPT ![p] =
                          RDiv(RAdd(v[before], v[p + 1]), RInt(2))],
              ok |-> TRUE]

\* the passes for positions[lo..hi], in order, from the loop state st;
\* no pass runs after the one that raised
RECURSIVE FillLoop(_, _, _, _)
FillLoop(st, positions, lo, hi) ==
    IF lo > hi THEN st
    ELSE IF lo = hi THEN FillStep(st, positions[lo])
    ELSE LET mid == (lo + hi) \div 2
             half == FillLoop(st, positions, lo, mid)
         IN  IF ~half.ok THEN half
             ELSE FillLoop(half, positions, mid + 1, hi)

\* for position in positions: ...
FillGaps(v, positions) ==
    FillLoop([arr |-> v, ok |-> TRUE], positions, 1, Len(positions))

\* the whole function: its local arrays, what it returns and the exception
\* it raises
check_data_availability_LAI(filled, lt) ==
    LET at == BuildCalendar(lt)
        result == IsIn(at, lt)
        copy == CopyOntoCalendar(result, filled)
        selected == DropFirstLastYear(copy.arr)
        dates == SelectDates(at)
        positions == NaNPositions(selected)
        fill == FillGaps(selected, positions)
    IN  IF ~copy.ok
        THEN [all_time |-> at, temp_array |-> copy.arr, lai |-> <<>>,
              dates |-> <<>>, ret |-> "", err |-> "IndexError"]
        ELSE IF Len(at) % SlotsPerYear # 0
        THEN [all_time |-> at, temp_array |-> copy.arr, lai |-> <<>>,
              dates |-> <<>>, ret |-> "", err |-> "ValueError"]
        ELSE IF Len(selected) > 0 /\ Len(positions) > 0 /\ ~fill.ok
        THEN [all_time |-> at, temp_array |-> copy.arr, lai |-> <<>>,
              dates |-> <<>>, ret |-> "", err |-> "IndexError"]
        ELSE IF Len(selected) > 0 /\ Len(positions) > 0
        THEN [all_time |-> at, temp_array |-> copy.arr, lai |-> fill.arr,
              dates |-> dates, ret |-> "tuple", err |-> ""]
        ELSE IF Len(selected) > 0
        THEN [all_time |-> at, temp_array |-> copy.arr, lai |-> <<>>,
              dates |-> <<>>, ret |-> "None", err |-> ""]
        ELSE [all_time |-> at, temp_array |-> copy.arr, lai |-> selected,
              dates |-> dates, ret |-> "tuple", err |-> ""]

CheckAvailability ==
    /\ pc = "calendar"
    /\ \E out \in {check_data_availability_LAI(filled_lai, lai_time)} :
           /\ all_time' = out.all_time
           /\ temp_array' = out.temp_array
           /\ gap_free_lai' = out.lai
           /\ selected_dates' = out.dates
           /\ ret' = out.ret
           /\ err' = out.err
           /\ pc' = IF out.err = "" THEN "regular" ELSE "error"
    /\ UNCHANGED <<fileVars, RH, loopVars>>
    /\ UNCHANGED <<gridVars, weighted_lai, filled_lai, lai_time, rollVars,
                   smoothVars, reqVars>>

\* ------------------------------------------------------------------------
\* rolling_mean
\* ------------------------------------------------------------------------
\* s[lo] + ... + s[hi]; NaN when one of them is NaN
RECURSIVE SumFromTo(_, _, _)
SumFromTo(s, lo, hi) ==
    IF lo > hi THEN Zero ELSE RAdd(SumFromTo(s, lo, hi - 1), s[hi])

\* np.mean(array[start_index:end_index]) for 0-based start_index (included)
\* and end_index (excluded)
SliceMean(s, start_index, end_index) ==
    IF end_index <= start_index THEN NaN
    ELSE RDiv(SumFromTo(s, start_index + 1, end_index),
              RInt(end_index - start_index))

\* a window that reaches one entry less far forward
rolling_mean_short(arr, window) ==
    LET n == Len(arr)
    IN  [k \in 1..n |->
            LET i == k - 1
                start_index == IF i - window \div 2 > 0
                               THEN i - window \div 2 ELSE 0
                end_index == IF i + window \div 2 < n
                             THEN i + window \div 2 ELSE n
            IN  SliceMean(arr, start_index, end_index)] \o <<>>

\* result[i] = np.mean(array[start_index:end_index]) for i in range(n), with
\* start_index = max(0, i - window // 2) and
\* end_index = min(n, i + (window + 1) // 2)
rolling_mean(arr, window) ==
    LET n == Len(arr)
    IN  [k \in 1..n |->
            LET i == k - 1
                start_index == IF i - window \div 2 > 0
                               THEN i - window \div 2 ELSE 0
                end_index == IF i + (window + 1) \div 2 < n
                             THEN i + (window + 1) \div 2 ELSE n
            IN  SliceMean(arr, start_index, end_index)] \o <<>>

\* rolling_mean(anomaly.flatten(), 13): the window of the only call
RollWindow == 13

\* a call of rolling_mean: a new array is returned, the argument is only read
RollingMean ==
    /\ pc = "roll"
    /\ roll_result' = rolling_mean(array, RollWindow)
    /\ pc' = "rolled"
    /\ UNCHANGED <<fileVars, RH, loopVars>>
    /\ UNCHANGED <<gridVars, weighted_lai, filled_lai, calVars, err, array,
                   smoothVars, reqVars>>

\* ------------------------------------------------------------------------
\* savgol_filter (scipy.signal), mode='interp', deriv=0
\* ------------------------------------------------------------------------
RECURSIVE Pow(_, _)
Pow(b, e) == IF e = 0 THEN 1 ELSE b * Pow(b, e - 1)

\* sum of t^e over the positions t = -half .. half of a window
RECURSIVE PowerSum(_, _)
PowerSum(t, e) ==
    IF t < 0 THEN 0
    ELSE IF t = 0 THEN Pow(0, e)
    ELSE Pow(t, e) + Pow(-t, e) + PowerSum(t - 1, e)

\* weights of the window values in the value, at position t of the window
\* (t = -half .. half, 0 the centre), of the least-squares polynomial of
\* degree polyorder through the window: w[k] is the weight of the value at
\* position k - 1 - half.  The polynomial c with G c = (1, t, t^2, ..) has
\* weight c(u) at position u, G being the matrix of the power sums.
FitWeights(window_length, polyorder, t) ==
    LET half == window_length \div 2
        n == polyorder + 1
        M0 == [p \in 1..n |->
                 [q \in 1..(n + 1) |->
                     IF q <= n THEN RInt(PowerSum(half, p + q - 2))
                     ELSE RInt(Pow(t, p - 1))] \o <<>>] \o <<>>
        R == GaussJordan(M0, 1, n)
        c == [p \in 1..n |-> R[p][n + 1]] \o <<>>
    IN  [k \in 1..window_length |->
            LET u == k - 1 - half
            IN  SumFromTo([p \in 1..n |-> RMul(c[p], RInt(Pow(u, p - 1)))],
                          1, n)] \o <<>>

\* window_length = 13
SavgolWindow == 13

\* polyorder = 3
SavgolOrder == 3

\* the weights for every position of the window, computed once
SavgolWeights ==
    [j \in 1..SavgolWindow |->
        FitWeights(SavgolWindow, SavgolOrder, j - 1 - SavgolWindow \div 2)]
    \o <<>>

\* sum of w[k] * x[first + k - 1] over k = 1 .. Len(w)
WeightedWindow(w, x, first) ==
    SumFromTo([k \in 1..Len(w) |-> RMul(w[k], x[first + k - 1])], 1, Len(w))

\* a filter that also uses the centre weights at the two ends, on the first
\* and the last full window
savgol_filter_centre(x, weights) ==
    LET n == Len(x)
        window_length == Len(weights)
        half == window_length \div 2
    IN  [i \in 1..n |->
            IF i <= half
            THEN WeightedWindow(weights[half + 1], x, 1)
            ELSE IF i > n - half
            THEN WeightedWindow(weights[half + 1], x, n - window_length + 1)
            ELSE WeightedWindow(weights[half + 1], x, i - half)] \o <<>>

\* savgol_filter(x, window_length, polyorder): away from the ends each value
\* is the centre value of the polynomial fitted to the window around it; the
\* first (last) window_length // 2 values are the values of the polynomial
\* fitted to the first (last) window_length entries.  weights[j] holds the
\* weights for position j of the window.
savgol_filter(x, weights) ==
    LET n == Len(x)
        window_length == Len(weights)
        half == window_length \div 2
    IN  [i \in 1..n |->
            IF i <= half
            THEN WeightedWindow(weights[i], x, 1)
            ELSE IF i > n - half
            THEN WeightedWindow(weights[window_length - (n - i)], x,
                                n - window_length + 1)
            ELSE WeightedWindow(weights[half + 1], x, i - half)] \o <<>>

\* ------------------------------------------------------------------------
\* smoothing_LAI (the [year, 46] matrix is held flattened, row after row)
\* ------------------------------------------------------------------------
\* slot 1..46 of the flattened cell i
SlotOf(i) == ((i - 1) % SlotsPerYear) + 1

\* column s of the matrix m: one value per year row
ColumnOf(m, s) ==
    [y \in 1..(Len(m) \div SlotsPerYear) |-> m[SlotsPerYear * (y - 1) + s]]
    \o <<>>

\* np.nanmean(gap_free_lai, axis=0): NaN for a column without a value, so
\* 46 NaN for a matrix without rows
ColumnMeans(m) == [s \in 1..SlotsPerYear |-> nanmean(ColumnOf(m, s))] \o <<>>

\* gap_free_lai - column_means, then .flatten()
Anomaly(m, means) ==
    [i \in 1..Len(m) |-> RSub(m[i], means[SlotOf(i)])] \o <<>>

\* anomaly_rolling + np.tile(smoothed_column_means, anomaly.shape[0])
AddTiled(rolling, profile) ==
    [i \in 1..Len(rolling) |-> RAdd(rolling[i], profile[SlotOf(i)])] \o <<>>

\* a smoother that adds the raw column means back
smoothing_LAI_raw(m) ==
    LET means == ColumnMeans(m)
        smoothed_means == savgol_filter(means, SavgolWeights)
        anom == Anomaly(m, means)
        anomaly_rolling == rolling_mean(anom, RollWindow)
    IN  [column_means |-> means,
         smoothed_column_means |-> smoothed_means,
         anomaly |-> anom,
         smoothed_lai |-> AddTiled(anomaly_rolling, means)]

\* the whole function: its local arrays and the series it returns
smoothing_LAI(m) ==
    LET means == ColumnMeans(m)
        smoothed_means == savgol_filter(means, SavgolWeights)
        anom == Anomaly(m, means)
        anomaly_rolling == rolling_mean(anom, RollWindow)
    IN  [column_means |-> means,
         smoothed_column_means |-> smoothed_means,
         anomaly |-> anom,
         smoothed_lai |-> AddTiled(anomaly_rolling, smoothed_means)]

SmoothingLAI ==
    /\ pc = "smooth"
    /\ \E out \in {smoothing_LAI(gap_free_lai)} :
           /\ column_means' = out.column_means
           /\ smoothed_column_means' = out.smoothed_column_means
           /\ anomaly' = out.anomaly
           /\ smoothed_lai' = out.smoothed_lai
    /\ pc' = "smoothed"
    /\ UNCHANGED <<fileVars, RH, loopVars>>
    /\ UNCHANGED <<gridVars, weighted_lai, filled_lai, calVars, err, rollVars,
                   reqVars>>

\* ------------------------------------------------------------------------
\* get_LAI, the tables and the pixel grids: a table is the list of the rows
\* of a file, a row a record of pixel, value, scale and calendar_date
\* ------------------------------------------------------------------------
\* pixel_no = [7, 8, 9, 12, 13, 14, 17, 18, 19]
pixel_no == <<7, 8, 9, 12, 13, 14, 17, 18, 19>>

\* table.loc[table['pixel'] == p]: the rows of pixel p, in file order
RowsOf(table, p) == SelectSeq(table, LAMBDA r : r.pixel = p)

\* max(lai['pixel'])
MaxPixel(table) == MaxOf({table[i].pixel : i \in 1..Len(table)})

\* min(len(lai), len(sd), len(qc)) // max(lai['pixel'])
TimeSteps(lai, sd, qc) ==
    MinOf({Len(lai), Len(sd), Len(qc)}) \div MaxPixel(lai)

\* length of .values[:n] of the rows of pixel p
SliceLen(table, p, n) ==
    IF Len(RowsOf(table, p)) < n THEN Len(RowsOf(table, p)) ELSE n

\* exception of  grid[:, idx] = rows.values[:n] (* scale.values[0]):
\* IndexError from .values[0] of no row, ValueError when the slice has
\* neither n values nor the one value numpy broadcasts; "" when none
ColumnRaises(table, p, n, scaled) ==
    IF scaled /\ RowsOf(table, p) = <<>> THEN "IndexError"
    ELSE IF SliceLen(table, p, n) = n \/ SliceLen(table, p, n) = 1 THEN ""
    ELSE "ValueError"

\* the column assigned to grid[:, idx]
Column(table, p, n, scaled) ==
    LET rows == RowsOf(table, p)
        k == SliceLen(table, p, n)
    IN  [t \in 1..n |->
            LET raw == IF k = n THEN rows[t].value ELSE rows[1].value
            IN  IF scaled THEN RMul(RInt(raw), rows[1].scale) ELSE raw]

\* for idx, p in enumerate(pixel_no): the exception of the first assignment
\* that raises, in the order lai, sd, qc of every pixel; "" when none does
LoopRaises(lai, sd, qc, n) ==
    LET raises(c) ==
            LET p == pixel_no[(c - 1) \div 3 + 1]
            IN  CASE (c - 1) % 3 = 0 -> ColumnRaises(lai, p, n, TRUE)
                  [] (c - 1) % 3 = 1 -> ColumnRaises(sd, p, n, TRUE)
                  [] OTHER -> ColumnRaises(qc, p, n, FALSE)
        bad == {c \in 1..(3 * NPix) : raises(c) # ""}
    IN  IF bad = {} THEN "" ELSE raises(MinOf(bad))

\* a grid of n rows whose columns are the columns of pixel_no
GridOf(table, n, scaled) ==
    LET cols == [idx \in 1..NPix |-> Column(table, pixel_no[idx], n, scaled)]
                    \o <<>>
    IN  [t \in 1..n |-> [idx \in 1..NPix |-> cols[idx][t]]] \o <<>>

\* pd.to_datetime(lai.loc[lai['pixel'] == pixel_no[0], 'calendar_date'])
TimesOf(lai) ==
    LET rows == RowsOf(lai, pixel_no[1])
    IN  [i \in 1..Len(rows) |-> rows[i].calendar_date] \o <<>>

\* the head of get_LAI: what it has built when it reaches
\* get_spatial_weighted_LAI, or the exception that ends it before:
\*   lai_file[0] (qc_file[0], sd_file[0]) of an empty glob result: IndexError,
\*   max() of the pixel column of a table without rows: ValueError,
\*   an assignment of the loop: LoopRaises
read_tables(lf, qf, sf) ==
    IF lf = <<>> \/ qf = <<>> \/ sf = <<>>
    THEN [err |-> "IndexError", no_tsteps |-> -1, lai_time |-> <<>>,
          lai |-> <<>>, sd |-> <<>>, qc |-> <<>>]
    ELSE IF lf[1] = <<>>
    THEN [err |-> "ValueError", no_tsteps |-> -1, lai_time |-> <<>>,
          lai |-> <<>>, sd |-> <<>>, qc |-> <<>>]
    ELSE LET n == TimeSteps(lf[1], sf[1], qf[1])
             raised == LoopRaises(lf[1], sf[1], qf[1], n)
         IN  IF raised # ""
             THEN [err |-> raised, no_tsteps |-> n,
                   lai_time |-> TimesOf(lf[1]),
                   lai |-> <<>>, sd |-> <<>>, qc |-> <<>>]
             ELSE [err |-> "", no_tsteps |-> n,
                   lai_time |-> TimesOf(lf[1]),
                   lai |-> GridOf(lf[1], n, TRUE),
                   sd |-> GridOf(sf[1], n, TRUE),
                   qc |-> GridOf(qf[1], n, FALSE)]

\* get_LAI up to the call of get_spatial_weighted_LAI
ReadTables ==
    /\ pc = "read"
    /\ \E out \in {read_tables(lai_file, qc_file, sd_file)} :
           /\ no_tsteps' = out.no_tsteps
           /\ lai_time' = out.lai_time
           /\ lai_pixel' = out.lai
           /\ sd_pixel' = out.sd
           /\ qc_pixel' = out.qc
           /\ err' = out.err
           /\ pc' = IF out.err = "" THEN "get_LAI" ELSE "error"
    /\ UNCHANGED <<lai_file, qc_file, sd_file, RH, loopVars>>
    /\ UNCHANGED <<weighted_lai, filled_lai, all_time, temp_array,
                   gap_free_lai, selected_dates, ret, rollVars, smoothVars,
                   reqVars>>

\* ------------------------------------------------------------------------
\* get_LAI, from the pixel grids on.  Times of the half-hourly frame are
\* numbers of half-hours from 2000-01-01 00:00
\* ------------------------------------------------------------------------
\* '30min': half-hours per day
StepsPerDay == 48

\* midnight of day d
Midnight(d) == StepsPerDay * d

\* end_date_extend = pd.to_datetime('2023-12-31 23:30:00')
end_date_extend == Midnight(Dec31(2023)) + 47

\* value the frame holds at half-hour t after resample('30min').ffill(),
\* reindex(...) and .ffill(): the value of the latest date not after t,
\* and where that is NaN (or t is after the last date) the latest value that
\* is not NaN; NaN when there is none
HeldValue(dates, values, t) ==
    LET J == {j \in 1..Len(dates) :
                 Midnight(dates[j]) <= t /\ ~IsNaN(values[j])}
    IN  IF J = {} THEN NaN ELSE values[MaxOf(J)]

\* a filter that leaves out the half-hour of end_date
FilteredFrame_exclusive(dates, values, start, end) ==
    LET lo == IF start > Midnight(dates[1]) THEN start
              ELSE Midnight(dates[1])
        hi == IF end < end_date_extend THEN end - 1 ELSE end_date_extend
    IN  [k \in 1..(hi - lo + 1) |-> HeldValue(dates, values, lo + k - 1)]
        \o <<>>

\* df_filled[(df_filled.index >= start_date) & (df_filled.index <= end_date)]
\* of the frame that runs from the first date to end_date_extend
FilteredFrame(dates, values, start, end) ==
    LET lo == IF start > Midnight(dates[1]) THEN start
              ELSE Midnight(dates[1])
        hi == IF end < end_date_extend THEN end ELSE end_date_extend
    IN  [k \in 1..(hi - lo + 1) |-> HeldValue(dates, values, lo + k - 1)]
        \o <<>>

\* the stages up to smoothing_LAI, each a record of what it computed;
\* at is the stage that raised ("" when none did)
get_LAI(lai, sd, qc, lt, start, end) ==
    LET msd == MaskedSd(sd, qc)
        mlai == MaskedLai(lai, msd, qc)
        weighted == [t \in DOMAIN mlai |-> WeightedRow(mlai[t], msd[t])]
                        \o <<>>
        raises == InterpRaises(weighted)
        filled == IF raises THEN <<>> ELSE interpolate_NA_LAI(weighted) \o <<>>
        cal == check_data_availability_LAI(filled, lt)
        unpacked == ~raises /\ cal.err = "" /\ cal.ret = "tuple"
        sm == smoothing_LAI(cal.lai)
        framed == /\ unpacked
                  /\ Len(cal.dates) = Len(sm.smoothed_lai)
                  /\ Len(cal.dates) > 0
    IN  [sd |-> msd, lai |-> mlai, weighted |-> weighted, filled |-> filled,
         raises |-> raises, cal |-> cal, unpacked |-> unpacked, sm |-> sm,
         framed |-> framed,
         lai_array |-> IF framed
                       THEN FilteredFrame(cal.dates, sm.smoothed_lai,
                                          start, end)
                       ELSE <<>>,
         err |-> IF raises THEN "ValueError"
                 ELSE IF cal.err # "" THEN cal.err
                 ELSE IF cal.ret = "None" THEN "TypeError"
                 ELSE IF ~framed THEN "ValueError"
                 ELSE ""]

\* a call of get_LAI: the grids are masked in place, every stage that is
\* reached leaves its result, and the call returns lai_array or ends in the
\* exception of the stage that raised:
\*   interp1d with fewer than 4 points (ValueError),
\*   check_data_availability_LAI (IndexError),
\*   unpacking the None it returned (TypeError),
\*   pd.DataFrame with columns of different lengths (ValueError),
\*   pd.date_range from the NaT start of an empty frame (ValueError)
GetLAI ==
    /\ pc = "get_LAI"
    /\ \E out \in {get_LAI(lai_pixel, sd_pixel, qc_pixel, lai_time,
                          start_date, end_date)} :
           /\ sd_pixel' = out.sd
           /\ lai_pixel' = out.lai
           /\ weighted_lai' = out.weighted
           /\ filled_lai' = out.filled
           /\ IF out.raises
              THEN UNCHANGED <<all_time, temp_array, gap_free_lai,
                               selected_dates, ret>>
              ELSE /\ all_time' = out.cal.all_time
                   /\ temp_array' = out.cal.temp_array
                   /\ gap_free_lai' = out.cal.lai
                   /\ selected_dates' = out.cal.dates
                   /\ ret' = out.cal.ret
           /\ IF out.unpacked
              THEN /\ column_means' = out.sm.column_means
                   /\ smoothed_column_means' = out.sm.smoothed_column_means
                   /\ anomaly' = out.sm.anomaly
                   /\ smoothed_lai' = out.sm.smoothed_lai
              ELSE UNCHANGED smoothVars
           /\ lai_array' = out.lai_array
           /\ err' = out.err
           /\ pc' = IF out.err = "" THEN "returned" ELSE "error"
    /\ UNCHANGED <<fileVars, RH, loopVars>>
    /\ UNCHANGED <<qc_pixel, lai_time, rollVars, start_date, end_date>>

\* ------------------------------------------------------------------------
\* replace_negative_with_mean_of_nearest.  Indices are Python's, from 0
\* ------------------------------------------------------------------------
\* neg_indices = np.where(arr < 0)[0]
neg_indices(a) == {i \in 0..(Len(a) - 1) : RLess(a[i + 1], Zero)}

\* left_index = i - 1; while left_index in neg_indices: left_index -= 1
left_index(neg, i) == MaxOf({j \in -1..(i - 1) : j \notin neg})

\* right_index = i + 1; while right_index in neg_indices: right_index += 1
right_index(neg, n, i) == MinOf({j \in (i + 1)..n : j \notin neg})

\* a[j] as numpy indexes: a negative index counts from the end
ElementAt(a, j) == IF j < 0 THEN a[Len(a) + j + 1] ELSE a[j + 1]

\* one pass of the loop, for the negative index i:
\*   arr[i] = np.mean([arr[left_index], arr[right_index]])
\* st.ok is FALSE once arr[right_index] was outside the array
ReplaceStep(st, neg, i) ==
    IF ~st.ok \/ i \notin neg THEN st
    ELSE IF right_index(neg, Len(st.a), i) >= Len(st.a)
    THEN [st EXCEPT !.ok = FALSE]
    ELSE [a |-> [st.a EXCEPT ![i + 1] =
                    RDiv(RAdd(ElementAt(st.a, left_index(neg, i)),
                              ElementAt(st.a, right_index(neg, Len(st.a), i))),
                         RInt(2))],
          ok |-> TRUE]

\* for i in neg_indices: the passes from index i on
RECURSIVE ReplaceLoop(_, _, _)
ReplaceLoop(st, neg, i) ==
    IF i >= Len(st.a) THEN st
    ELSE ReplaceLoop(ReplaceStep(st, neg, i), neg, i + 1)

\* the array after the call (it is changed in place) and whether the call
\* returned
replace_negative_with_mean_of_nearest(a) ==
    ReplaceLoop([a |-> a, ok |-> TRUE], neg_indices(a), 0)

\* RH_modified = replace_negative_with_mean_of_nearest(RH)
ReplaceNegative ==
    /\ pc = "replace"
    /\ \E out \in {replace_negative_with_mean_of_nearest(RH)} :
           /\ RH' = out.a
           /\ err' = IF out.ok THEN "" ELSE "IndexError"
           /\ pc' = IF out.ok THEN "replaced" ELSE "error"
    /\ UNCHANGED <<fileVars, loopVars>>
    /\ UNCHANGED <<gridVars, weighted_lai, filled_lai, calVars, rollVars,
                   smoothVars, reqVars>>

\* ------------------------------------------------------------------------
\* The loop over the stations of station_dict.  A station is the exception
\* its processing raises ("" when it raises none)
\* ------------------------------------------------------------------------
\* position in station_dict of the station of the next iteration
NextStation == Cardinality(started) + 1

\* one iteration of  for station_name, station_info in station_dict.items():
\* the station is announced as started; an exception raised in the body is
\* caught nowhere and ends the loop; a body that raises nothing saves the
\* file of the station, announces it as completed and reaches the break
\* that ends the loop
StationIteration ==
    /\ pc = "loop"
    /\ NextStation <= Len(station_dict)
    /\ started' = started \cup {NextStation}
    /\ IF station_dict[NextStation] # ""
       THEN /\ err' = station_dict[NextStation]
            /\ pc' = "error"
            /\ UNCHANGED completed
       ELSE /\ completed' = completed \cup {NextStation}
            /\ pc' = "done"
            /\ UNCHANGED err
    /\ UNCHANGED <<fileVars, RH, station_dict>>
    /\ UNCHANGED <<gridVars, weighted_lai, filled_lai, calVars, rollVars,
                   smoothVars, reqVars>>

\* the loop over a station_dict without a station left ends
LoopExhausted ==
    /\ pc = "loop"
    /\ NextStation > Len(station_dict)
    /\ pc' = "done"
    /\ UNCHANGED <<fileVars, RH, loopVars, err>>
    /\ UNCHANGED <<gridVars, weighted_lai, filled_lai, calVars, rollVars,
                   smoothVars, reqVars>>

\* ------------------------------------------------------------------------
\* Specification
\* ------------------------------------------------------------------------
Init ==
    /\ pc = "weight"
    /\ \E n \in 1..MaxSteps : \E g \in [1..n -> InputRows] :
          /\ lai_pixel = [t \in 1..n |-> [p \in 1..NPix |-> g[t][p].lai]]
          /\ sd_pixel = [t \in 1..n |-> [p \in 1..NPix |-> g[t][p].sd]]
          /\ qc_pixel = [t \in 1..n |-> [p \in 1..NPix |-> g[t][p].qc]]
    /\ weighted_lai = <<>>
    /\ filled_lai = <<>>
    /\ lai_time = <<>>
    /\ all_time = <<>>
    /\ temp_array = <<>>
    /\ gap_free_lai = <<>>
    /\ selected_dates = <<>>
    /\ ret = ""
    /\ err = ""
    /\ array = <<>>
    /\ roll_result = <<>>
    /\ column_means = <<>>
    /\ smoothed_column_means = <<>>
    /\ anomaly = <<>>
    /\ smoothed_lai = <<>>
    /\ start_date = 0
    /\ end_date = 0
    /\ lai_array = <<>>
    /\ NoFiles
    /\ NoArr
    /\ NoLoop

Next ==
    \/ SpatialWeight
    \/ InterpolateNA

Spec == Init /\ [][Next]_vars

\* ------------------------------------------------------------------------
\* Inputs of check_data_availability_LAI: 8-day observation timestamps from
\* slot s0 of the first year to slot e0 of the last year, with one
\* irregularity (one or two missing, an off-calendar or a repeated
\* timestamp, also at the first or last slot of an inner year), and a
\* stage-3 series: positive, all values different, the last one 0
\* ------------------------------------------------------------------------
FirstYears == {2002, 2003}

StartSlots == {0, 23}

EndSlots == {22, 45}

Edits == {"none", "drop", "drop2", "insert", "repeat"}

\* date of the 8-day slot number g counted from slot 0 of year first
SlotDate(first, g) ==
    Jan1(first + g \div SlotsPerYear) + CalendarStep * (g % SlotsPerYear)

RegularTimes(first, years, s0, e0) ==
    [i \in 1..(SlotsPerYear * (years - 1) + e0 - s0 + 1) |->
        SlotDate(first, s0 + i - 1)] \o <<>>

EditTimes(lt, edit, k) ==
    CASE edit = "none" -> lt
      [] edit = "drop" -> SubSeq(lt, 1, k - 1) \o SubSeq(lt, k + 1, Len(lt))
      [] edit = "drop2" ->
             SubSeq(lt, 1, k - 1) \o SubSeq(lt, k + 2, Len(lt))
      [] edit = "insert" ->
             SubSeq(lt, 1, k) \o <<lt[k] + 1>> \o SubSeq(lt, k + 1, Len(lt))
      [] edit = "repeat" ->
             SubSeq(lt, 1, k) \o <<lt[k]>> \o SubSeq(lt, k + 1, Len(lt))

EditPositions(n) == {1, 2, n \div 2, n}

\* positions in the timestamps of the first slot of the second year and of
\* the last slot of the year before the last
YearEdgePositions(years, s0) ==
    {SlotsPerYear + 1 - s0, SlotsPerYear * (years - 1) - s0}

RampSeries(n) == [i \in 1..n |-> IF i = n THEN Zero ELSE RInt(i)] \o <<>>

InitCal ==
    /\ pc = "calendar"
    /\ lai_pixel = <<>>
    /\ sd_pixel = <<>>
    /\ qc_pixel = <<>>
    /\ weighted_lai = <<>>
    /\ \E first \in FirstYears, years \in 1..MaxYears,
          s0 \in StartSlots, e0 \in EndSlots, edit \in Edits :
          /\ SlotsPerYear * (years - 1) + e0 - s0 + 1 >= MinPoints
          /\ LET base == RegularTimes(first, years, s0, e0)
             IN  \E k \in (EditPositions(Len(base))
                            \cup YearEdgePositions(years, s0))
                               \cap (1..Len(base)),
                    short \in {0, 1} :
                    /\ edit = "none" => k = 1
                    /\ lai_time = EditTimes(base, edit, k)
                    /\ filled_lai = RampSeries(Len(lai_time) - short)
    /\ all_time = <<>>
    /\ temp_array = <<>>
    /\ gap_free_lai = <<>>
    /\ selected_dates = <<>>
    /\ ret = ""
    /\ err = ""
    /\ array = <<>>
    /\ roll_result = <<>>
    /\ column_means = <<>>
    /\ smoothed_column_means = <<>>
    /\ anomaly = <<>>
    /\ smoothed_lai = <<>>
    /\ start_date = 0
    /\ end_date = 0
    /\ lai_array = <<>>
    /\ NoFiles
    /\ NoArr
    /\ NoLoop

NextCal ==
    \/ CheckAvailability

SpecCal == InitCal /\ [][NextCal]_vars

\* ------------------------------------------------------------------------
\* Inputs of rolling_mean: arrays of 0..MaxLen entries, either 1, 2, .., n
\* or all 0 but one entry, which is 1 or NaN
\* ------------------------------------------------------------------------
RampArray(n) == [i \in 1..n |-> RInt(i)] \o <<>>

ImpulseArray(n, j, v) == [i \in 1..n |-> IF i = j THEN v ELSE Zero] \o <<>>

RollInputs(n) ==
    {RampArray(n)} \cup {ImpulseArray(n, j, v) : j \in 1..n, v \in {One, NaN}}

\* no pixel grid, weighted or interpolated series in this run
NoSeries ==
    /\ lai_pixel = <<>>
    /\ sd_pixel = <<>>
    /\ qc_pixel = <<>>
    /\ weighted_lai = <<>>
    /\ filled_lai = <<>>

\* no calendar in this run
NoCalendar ==
    /\ lai_time = <<>>
    /\ all_time = <<>>
    /\ temp_array = <<>>
    /\ selected_dates = <<>>
    /\ ret = ""

\* smoothing_LAI has not run
NoSmooth ==
    /\ column_means = <<>>
    /\ smoothed_column_means = <<>>
    /\ anomaly = <<>>
    /\ smoothed_lai = <<>>

\* no call of get_LAI in this run
NoRequest ==
    /\ start_date = 0
    /\ end_date = 0
    /\ lai_array = <<>>

InitRoll ==
    /\ pc = "roll"
    /\ NoSeries
    /\ NoCalendar
    /\ gap_free_lai = <<>>
    /\ err = ""
    /\ \E n \in 0..MaxLen : array \in RollInputs(n)
    /\ roll_result = <<>>
    /\ NoSmooth
    /\ NoRequest
    /\ NoFiles
    /\ NoArr
    /\ NoLoop

NextRoll ==
    \/ RollingMean

SpecRoll == InitRoll /\ [][NextRoll]_vars

\* ------------------------------------------------------------------------
\* Inputs of smoothing_LAI: matrices of 0..MaxRows year rows; every row is
\* the same seasonal profile plus an offset of the year, and one cell may be
\* a missing cell that the gap fill left
\* ------------------------------------------------------------------------
Profiles ==
    {<<"flat", 0>>, <<"line", 0>>, <<"cubic", 0>>}
        \cup {<<"bump", j>> : j \in {1, 7, 23, 40, 46}}

\* value of the profile at slot s: a constant, polynomials of degree 1 and 3
\* of the slot, and a constant with one raised slot
ProfileAt(profile, s) ==
    CASE profile[1] = "flat" -> RInt(3)
      [] profile[1] = "line" -> Rat(s, 10)
      [] profile[1] = "cubic" ->
             RInt((s - 23) * (s - 23) * (s - 23) + 12167)
      [] profile[1] = "bump" -> IF s = profile[2] THEN RInt(4) ELSE RInt(3)

Holes == {0, 20}

MatrixOf(profile, offsets, hole) ==
    [i \in 1..(SlotsPerYear * Len(offsets)) |->
        IF i = hole THEN NaN
        ELSE RAdd(ProfileAt(profile, SlotOf(i)),
                  RInt(offsets[(i - 1) \div SlotsPerYear + 1]))] \o <<>>

InitSmooth ==
    /\ pc = "smooth"
    /\ NoSeries
    /\ NoCalendar
    /\ \E rows \in 0..MaxRows :
          \E profile \in Profiles, offsets \in [1..rows -> {0, 1}],
             hole \in Holes :
             gap_free_lai = MatrixOf(profile, offsets, hole)
    /\ err = ""
    /\ array = <<>>
    /\ roll_result = <<>>
    /\ NoSmooth
    /\ NoRequest
    /\ NoFiles
    /\ NoArr
    /\ NoLoop

NextSmooth ==
    \/ SmoothingLAI

SpecSmooth == InitSmooth /\ [][NextSmooth]_vars

\* ------------------------------------------------------------------------
\* Inputs of get_LAI: grids whose rows are all of one kind, one row per
\* timestamp; 8-day timestamps up to the last slot of the last year,
\* complete or without one or two dates of the middle (the long record:
\* reliable cells from the first slot on, of a LAI that alternates from one
\* year of rows to the next); a request window of 8 half-hours
\* ------------------------------------------------------------------------
PipeEdits == {"none", "drop", "drop2"}

\* years of a record whose inner years are the years of selected_dates
RecordYears == DatesToYear - DatesFromYear + 3

\* short records and the record the fixed years of selected_dates fit
PipeYears == (1..MaxYears) \cup {RecordYears}

\* slot, counted from the first of selected_dates, of the first date whose
\* rolling window holds the timestamp that PipeEdits removes from the record
EditedSlot ==
    (SlotsPerYear * RecordYears) \div 2 - SlotsPerYear - RollWindow \div 2 - 1

\* windows: before the first calendar date, across the first date of the
\* second year, across the next date, across the date of EditedSlot, across
\* end_date_extend
PipeWindows(first) ==
    { <<Midnight(Jan1(first)) - 8, Midnight(Jan1(first)) - 1>>,
      <<Midnight(Jan1(first + 1)) - 4, Midnight(Jan1(first + 1)) + 3>>,
      <<Midnight(Jan1(first + 1) + CalendarStep) - 4,
        Midnight(Jan1(first + 1) + CalendarStep) + 3>>,
      <<Midnight(SlotDate(DatesFromYear, EditedSlot)) - 4,
        Midnight(SlotDate(DatesFromYear, EditedSlot)) + 3>>,
      <<end_date_extend - 3, end_date_extend + 4>> }

\* LAI of a cell of row t: the LAI of the row kind, and in every second
\* run of SlotsPerYear rows of the long record one more
YearlyLai(lai, years, t) ==
    IF years = RecordYears /\ ((t - 1) \div SlotsPerYear) % 2 = 1
    THEN RAdd(lai, One) ELSE lai

InitPipe ==
    /\ pc = "get_LAI"
    /\ \E first \in FirstYears, years \in PipeYears,
          s0 \in StartSlots, edit \in PipeEdits, row \in InputRows :
          /\ years = RecordYears => (s0 = 0 /\ row = Uniform(GoodCell))
          /\ LET base == RegularTimes(first, years, s0, SlotsPerYear - 1)
                 lt == EditTimes(base, edit, Len(base) \div 2)
             IN  /\ lai_time = lt
                 /\ lai_pixel = [t \in 1..Len(lt) |->
                                    [p \in 1..NPix |->
                                        YearlyLai(row[p].lai, years, t)]]
                 /\ sd_pixel = [t \in 1..Len(lt) |->
                                   [p \in 1..NPix |-> row[p].sd]]
                 /\ qc_pixel = [t \in 1..Len(lt) |->
                                   [p \in 1..NPix |-> row[p].qc]]
          /\ \E w \in PipeWindows(first) :
                /\ start_date = w[1]
                /\ end_date = w[2]
    /\ weighted_lai = <<>>
    /\ filled_lai = <<>>
    /\ all_time = <<>>
    /\ temp_array = <<>>
    /\ gap_free_lai = <<>>
    /\ selected_dates = <<>>
    /\ ret = ""
    /\ err = ""
    /\ array = <<>>
    /\ roll_result = <<>>
    /\ NoSmooth
    /\ lai_array = <<>>
    /\ NoFiles
    /\ NoArr
    /\ NoLoop

NextPipe ==
    \/ GetLAI

SpecPipe == InitPipe /\ [][NextPipe]_vars

\* ------------------------------------------------------------------------
\* Inputs of the head of get_LAI: three tables of 0..MaxSteps time steps,
\* rows in the order of time and then of pixel, of the 25 pixels of a 5 x 5
\* subset or of the selected pixels alone; at most one thing is wrong: a file
\* is missing, a selected pixel is absent from a table, or a table lacks its
\* last time step
\* ------------------------------------------------------------------------
Files == {"lai", "sd", "qc"}

AllPixels == 1..25

SelectedPixels == {pixel_no[idx] : idx \in 1..NPix}

PixelSets == {AllPixels, SelectedPixels}

Defects ==
    {<<"none", "", 0>>}
    \cup {<<"missing", f, 0>> : f \in Files}
    \cup {<<"absent", f, p>> : f \in Files, p \in {7, 13, 19}}
    \cup {<<"short", f, 0>> : f \in Files}

RECURSIVE SortedSeq(_)
SortedSeq(S) ==
    IF S = {} THEN <<>> ELSE <<MinOf(S)>> \o SortedSeq(S \ {MinOf(S)})

\* raw value of a cell of file f: the LAI varies with time and pixel
RawValue(f, t, p) ==
    CASE f = "lai" -> 10 + t + p
      [] f = "sd" -> 5
      [] OTHER -> 0

\* the table of file f under a defect
TableOf(f, steps, ids, defect) ==
    LET n == IF defect[1] = "short" /\ defect[2] = f /\ steps > 0
             THEN steps - 1 ELSE steps
        present == IF defect[1] = "absent" /\ defect[2] = f
                   THEN ids \ {defect[3]} ELSE ids
        order == SortedSeq(present)
        k == Len(order)
    IN  [i \in 1..(n * k) |->
            [pixel |-> order[((i - 1) % k) + 1],
             value |-> RawValue(f, (i - 1) \div k + 1,
                                order[((i - 1) % k) + 1]),
             scale |-> Rat(1, 10),
             calendar_date |-> SlotDate(DatesFromYear, (i - 1) \div k)]]
        \o <<>>

\* glob result for file f
FoundOf(f, steps, ids, defect) ==
    IF defect[1] = "missing" /\ defect[2] = f THEN <<>>
    ELSE <<TableOf(f, steps, ids, defect)>>

InitRead ==
    /\ pc = "read"
    /\ \E steps \in 0..MaxSteps, ids \in PixelSets, defect \in Defects :
          /\ lai_file = FoundOf("lai", steps, ids, defect)
          /\ qc_file = FoundOf("qc", steps, ids, defect)
          /\ sd_file = FoundOf("sd", steps, ids, defect)
    /\ no_tsteps = -1
    /\ NoSeries
    /\ NoCalendar
    /\ gap_free_lai = <<>>
    /\ err = ""
    /\ array = <<>>
    /\ roll_result = <<>>
    /\ NoSmooth
    /\ start_date = Midnight(Jan1(DatesFromYear))
    /\ end_date = Midnight(Jan1(DatesFromYear)) + StepsPerDay - 1
    /\ lai_array = <<>>
    /\ NoArr
    /\ NoLoop

NextRead ==
    \/ ReadTables
    \/ GetLAI

SpecRead == InitRead /\ [][NextRead]_vars

\* ------------------------------------------------------------------------
\* Inputs of replace_negative_with_mean_of_nearest: arrays of 0..MaxArr
\* values, negative and non-negative
\* ------------------------------------------------------------------------
ArrValues == {RInt(-2), RInt(-1), RInt(1), RInt(3)}

InitNeg ==
    /\ pc = "replace"
    /\ \E n \in 0..MaxArr : RH \in [1..n -> ArrValues]
    /\ NoSeries
    /\ NoCalendar
    /\ gap_free_lai = <<>>
    /\ err = ""
    /\ array = <<>>
    /\ roll_result = <<>>
    /\ NoSmooth
    /\ NoRequest
    /\ NoFiles
    /\ NoLoop

NextNeg ==
    \/ ReplaceNegative

SpecNeg == InitNeg /\ [][NextNeg]_vars

\* ------------------------------------------------------------------------
\* Inputs of the loop over the stations: 0..MaxStations stations, each with
\* the exception its data make the body raise: none, the IndexError of a
\* missing table, the TypeError of a record without a gap.  The notebook
\* cell runs to its end, so the loop is weakly fair
\* ------------------------------------------------------------------------
StationOutcomes == {"", "IndexError", "TypeError"}

InitLoop ==
    /\ pc = "loop"
    /\ \E n \in 0..MaxStations : station_dict \in [1..n -> StationOutcomes]
    /\ started = {}
    /\ completed = {}
    /\ NoSeries
    /\ NoCalendar
    /\ gap_free_lai = <<>>
    /\ err = ""
    /\ array = <<>>
    /\ roll_result = <<>>
    /\ NoSmooth
    /\ NoRequest
    /\ NoFiles
    /\ NoArr

NextLoop ==
    \/ StationIteration
    \/ LoopExhausted

SpecLoop == InitLoop /\ [][NextLoop]_vars /\ WF_vars(NextLoop)

\* ------------------------------------------------------------------------
\* Properties of get_spatial_weighted_LAI (specification Spec)
\* ------------------------------------------------------------------------
\* get_spatial_weighted_LAI has returned
Weighted == pc \in {"interp", "filled", "error"}

\* pixels of a row that are not missing after masking
NonMissing(lairow) == {p \in 1..NPix : ~IsNaN(lairow[p])}

\* sum of f[p] over the pixels p <= n that belong to S
RECURSIVE SumPix(_, _, _)
SumPix(f, S, n) ==
    IF n = 0 THEN Zero
    ELSE IF n \in S THEN RAdd(SumPix(f, S, n - 1), f[n])
    ELSE SumPix(f, S, n - 1)

\* 1/sd^2 normalised over the non-missing pixels of the row
NormalisedWeight(lairow, sdrow) ==
    LET inv == [p \in 1..NPix |-> RDiv(One, RMul(sdrow[p], sdrow[p]))]
        total == SumPix(inv, NonMissing(lairow), NPix)
    IN  [p \in 1..NPix |-> RDiv(inv[p], total)]

\* sum of weight x LAI over the non-missing pixels of the row
InverseVarianceMean(lairow, sdrow) ==
    LET w == NormalisedWeight(lairow, sdrow)
    IN  SumPix([p \in 1..NPix |-> RMul(lairow[p], w[p])],
               NonMissing(lairow), NPix)

\* C1: for every row with a non-missing pixel the value returned by
\* get_spatial_weighted_LAI is the sum over the non-missing pixels of
\* weight x LAI, the weight being 1/sd^2 normalised over those pixels.
C1_WeightedSum ==
    Weighted =>
        \A t \in DOMAIN weighted_lai :
            NonMissing(lai_pixel[t]) # {} =>
                weighted_lai[t] =
                    InverseVarianceMean(lai_pixel[t], sd_pixel[t])

\* C2: in every row with a non-missing pixel, the weights computed by
\* get_spatial_weighted_LAI of the pixels whose LAI is non-missing after
\* masking sum to exactly 1.
C2_WeightsSumToOne ==
    Weighted =>
        \A t \in DOMAIN weighted_lai :
            NonMissing(lai_pixel[t]) # {} =>
                SumPix(Weights(sd_pixel[t]), NonMissing(lai_pixel[t]), NPix)
                    = One

\* a cell fails the mask
FailsMask(l, s, q) ==
    \/ q \notin qc_flags
    \/ RLess(s, Rat(1, 10))
    \/ RGreater(l, RInt(10))

\* the weighted series get_spatial_weighted_LAI computes from three grids
WeightedOf(lai, sd, qc) ==
    LET msd == MaskedSd(sd, qc)
        mlai == MaskedLai(lai, msd, qc)
    IN  [t \in DOMAIN lai |-> WeightedRow(mlai[t], msd[t])]

\* other LAI and sd values tried in a cell
OtherValues == {Rat(1, 20), Rat(1, 2), RInt(1), RInt(2), RInt(11), RInt(12)}

\* C3: a cell that fails the mask never contributes to its row: changing
\* its LAI or its sd (while it still fails the mask) leaves the row's
\* result unchanged, and after masking the cell is missing in both the LAI
\* and the sd grid.
C3_MaskedCellInert ==
    /\ pc = "weight" =>
         \A t \in DOMAIN lai_pixel : \A p \in 1..NPix : \A v \in OtherValues :
            /\ ( /\ FailsMask(lai_pixel[t][p], sd_pixel[t][p], qc_pixel[t][p])
                 /\ FailsMask(v, sd_pixel[t][p], qc_pixel[t][p]) )
               => WeightedOf([lai_pixel EXCEPT ![t][p] = v],
                             sd_pixel, qc_pixel)[t]
                    = WeightedOf(lai_pixel, sd_pixel, qc_pixel)[t]
            /\ ( /\ FailsMask(lai_pixel[t][p], sd_pixel[t][p], qc_pixel[t][p])
                 /\ FailsMask(lai_pixel[t][p], v, qc_pixel[t][p]) )
               => WeightedOf(lai_pixel,
                             [sd_pixel EXCEPT ![t][p] = v], qc_pixel)[t]
                    = WeightedOf(lai_pixel, sd_pixel, qc_pixel)[t]
    /\ Weighted =>
         \A t \in DOMAIN lai_pixel : \A p \in 1..NPix :
            IsNaN(lai_pixel[t][p]) => IsNaN(sd_pixel[t][p])

\* every pixel of row t failed the mask
AllMissing(t) == NonMissing(lai_pixel[t]) = {}

\* the cubic fit through the non-missing entries of s, evaluated at every
\* index of s
CubicValues(s) ==
    LET xs == ValidIndex(s)
        ys == [k \in 1..Len(xs) |-> s[xs[k]]] \o <<>>
        coef == SplineCoef(xs, ys)
    IN  [i \in 1..Len(s) |-> SplineAt(xs, coef, i)] \o <<>>

\* C4 as stated: a step whose 9 pixels all fail the mask gets a missing
\* marker from get_spatial_weighted_LAI, and interpolate_NA_LAI replaces the
\* marker by the cubic-fit value of the valid steps.
C4_FilledByCubic ==
    pc = "filled" =>
        LET cubic == CubicValues(weighted_lai)
        IN  \A t \in DOMAIN weighted_lai :
               AllMissing(t) =>
                   /\ IsNaN(weighted_lai[t])
                   /\ filled_lai[t] = cubic[t]

\* C4 (amended): a step whose 9 pixels all fail the mask gets a missing
\* marker (not zero) from get_spatial_weighted_LAI, which raises no error;
\* when at least 4 steps are valid interpolate_NA_LAI replaces the marker by
\* the value at that step of the cubic fit through all valid steps, floored
\* at 0, except at the final step, which is set to 0.
C4_FilledByCappedCubic ==
    /\ Weighted =>
         \A t \in DOMAIN weighted_lai : AllMissing(t) => IsNaN(weighted_lai[t])
    /\ pc = "interp" => err = ""
    /\ pc = "filled" =>
         LET cubic == CubicValues(weighted_lai)
         IN  /\ CountValid(weighted_lai) >= 4
             /\ \A t \in DOMAIN weighted_lai :
                   ~IsNaN(weighted_lai[t]) => cubic[t] = weighted_lai[t]
             /\ \A t \in DOMAIN weighted_lai :
                   AllMissing(t) =>
                       filled_lai[t] =
                           IF t = Len(weighted_lai) THEN Zero
                           ELSE IF RLess(cubic[t], Zero) THEN Zero
                           ELSE cubic[t]

\* a fully masked step inside the series was filled with a positive value
\* of the cubic fit
C4_Witness ==
    /\ pc = "filled"
    /\ \E t \in DOMAIN weighted_lai :
          /\ AllMissing(t)
          /\ t < Len(weighted_lai)
          /\ RGreater(filled_lai[t], Zero)
          /\ filled_lai[t] = CubicValues(weighted_lai)[t]

\* C5: when all pixels of a row pass the mask and carry the same LAI value
\* v, get_spatial_weighted_LAI returns v for that row.
C5_ConstantRow ==
    Weighted =>
        \A t \in DOMAIN weighted_lai :
            ( /\ NonMissing(lai_pixel[t]) = 1..NPix
              /\ \A p \in 1..NPix : lai_pixel[t][p] = lai_pixel[t][1] )
            => weighted_lai[t] = lai_pixel[t][1]

\* ------------------------------------------------------------------------
\* Properties of interpolate_NA_LAI (specification Spec)
\* ------------------------------------------------------------------------
\* C6: the output of interpolate_NA_LAI holds no negative value and its
\* final element is exactly 0, whatever the input's final element was.
C6_NonNegativeLastZero ==
    pc = "filled" =>
        /\ \A i \in 1..Len(filled_lai) : ~RLess(filled_lai[i], Zero)
        /\ filled_lai[Len(filled_lai)] = Zero

\* the input held a negative value before its end and a positive final one
C6_Witness ==
    /\ pc = "filled"
    /\ \E i \in 1..(Len(weighted_lai) - 1) : RLess(weighted_lai[i], Zero)
    /\ RGreater(weighted_lai[Len(weighted_lai)], Zero)

\* C7: for every input with at least 4 non-missing entries interpolate_NA_LAI
\* returns an array of the same length without any missing marker, also
\* where the missing entries lie before the first or after the last
\* non-missing index.
C7_Dense ==
    /\ (pc \in {"filled", "error"} /\ CountValid(weighted_lai) >= 4)
         => pc = "filled"
    /\ pc = "filled" =>
         /\ Len(filled_lai) = Len(weighted_lai)
         /\ \A i \in 1..Len(filled_lai) : ~IsNaN(filled_lai[i])

\* the input was missing before its first and after its last known index
C7_Witness ==
    /\ pc = "filled"
    /\ IsNaN(weighted_lai[1])
    /\ IsNaN(weighted_lai[Len(weighted_lai)])

\* C8: with fewer than 4 non-missing entries interpolate_NA_LAI ends in an
\* error and returns no series.
C8_TooFewPoints ==
    (pc \in {"filled", "error"} /\ CountValid(weighted_lai) < 4) =>
        /\ pc = "error"
        /\ err = "ValueError"
        /\ filled_lai = <<>>

\* the series had exactly 3 non-missing entries and some missing ones
C8_Witness ==
    /\ pc = "error"
    /\ CountValid(weighted_lai) = 3
    /\ Len(weighted_lai) > 3

\* ------------------------------------------------------------------------
\* Properties of check_data_availability_LAI (specification SpecCal)
\* ------------------------------------------------------------------------
\* check_data_availability_LAI has run
CalendarBuilt == pc \in {"regular", "error"}

\* first and last observation year
FirstYear == MinOf({YearOf(lai_time[k]) : k \in 1..Len(lai_time)})

LastYear == MaxOf({YearOf(lai_time[k]) : k \in 1..Len(lai_time)})

\* C9: every year of the calendar, leap or not, has exactly 46 dates, the
\* k-th being January 1 plus 8*k days, so the calendar has 46 dates per
\* year from the first to the last observation year.
C9_Calendar46 ==
    CalendarBuilt =>
        LET first == FirstYear
            last == LastYear
        IN  /\ Len(all_time) = 46 * (last - first + 1)
            /\ \A j \in 0..(last - first) :
                  LET jan1 == Jan1(first + j)
                  IN  \A k \in 0..45 :
                         all_time[46 * j + k + 1] = jan1 + 8 * k

\* the calendar covers a leap year and a year that is not
C9_Witness ==
    /\ pc = "regular"
    /\ \E i, j \in 1..Len(all_time) :
          IsLeap(YearOf(all_time[i])) /\ ~IsLeap(YearOf(all_time[j]))

\* C10: each calendar date that occurs among the observation timestamps
\* receives the stage-3 value of an observation carrying that date, and
\* each calendar date that does not occur is left missing.
C10_CopiedByDate ==
    pc = "regular" =>
        \A i \in 1..Len(all_time) :
            IF \E k \in 1..Len(lai_time) : lai_time[k] = all_time[i]
            THEN \E k \in 1..Len(filled_lai) :
                    /\ k <= Len(lai_time)
                    /\ lai_time[k] = all_time[i]
                    /\ temp_array[i] = filled_lai[k]
            ELSE IsNaN(temp_array[i])

\* check_data_availability_LAI has returned its pair
ReturnedPair == pc = "regular" /\ ret = "tuple"

\* calendar date of the i-th cell of the retained matrix, in flattened
\* order: the cells are the calendar entries after those of the first year
CellDate(i) == all_time[SlotsPerYear + i]

\* C11: the dates returned by check_data_availability_LAI are the calendar
\* dates of the retained matrix cells: as many dates as cells, the i-th date
\* being the calendar date of the i-th cell in flattened order.
C11_DatesOfCells ==
    ReturnedPair =>
        /\ Len(selected_dates) = Len(gap_free_lai)
        /\ \A i \in 1..Len(selected_dates) : selected_dates[i] = CellDate(i)

\* C12: the matrix returned by check_data_availability_LAI is gap-free: no
\* cell of it is missing after the fill step, whatever calendar dates of the
\* retained years were unobserved.
C12_GapFree ==
    ReturnedPair => \A i \in 1..Len(gap_free_lai) : ~IsNaN(gap_free_lai[i])

\* the retained matrix before the fill step, flattened
RetainedCells == DropFirstLastYear(temp_array)

\* C13: check_data_availability_LAI returns a pair (matrix, dates) whenever
\* it returns, and when no cell of the retained years is missing the pair
\* holds the unchanged matrix and the dates.
C13_AlwaysPair ==
    pc = "regular" =>
        /\ ret = "tuple"
        /\ (\A i \in 1..Len(RetainedCells) : ~IsNaN(RetainedCells[i])) =>
              /\ gap_free_lai = RetainedCells
              /\ selected_dates = SelectDates(all_time)

\* the first or the last cell of the flattened retained matrix is missing
\* before the fill step
BoundaryCellMissing ==
    /\ Len(RetainedCells) > 0
    /\ \/ IsNaN(RetainedCells[1])
       \/ IsNaN(RetainedCells[Len(RetainedCells)])

\* C14: when the first or the last cell of the flattened retained matrix is
\* missing, check_data_availability_LAI ends in an error and returns no
\* matrix: no value is produced for that cell from a wrapped-around or
\* out-of-range neighbour.
C14_BoundaryReported ==
    (CalendarBuilt /\ BoundaryCellMissing) =>
        /\ pc = "error"
        /\ gap_free_lai = <<>>

\* cell i of the retained matrix is missing before the fill step, is neither
\* the first nor the last cell, and both its neighbours are not missing
IsolatedGap(i) ==
    /\ 1 < i /\ i < Len(RetainedCells)
    /\ IsNaN(RetainedCells[i])
    /\ ~IsNaN(RetainedCells[i - 1])
    /\ ~IsNaN(RetainedCells[i + 1])

\* C15: in the matrix returned after the gap fill, every cell that was
\* missing and had two non-missing flattened neighbours holds the average of
\* the preceding and the following value, and every cell that was not
\* missing holds its value.
C15_AverageOfNeighbours ==
    (ReturnedPair /\ Len(gap_free_lai) > 0) =>
        /\ Len(gap_free_lai) = Len(RetainedCells)
        /\ \A i \in 1..Len(RetainedCells) :
              /\ ~IsNaN(RetainedCells[i]) =>
                    gap_free_lai[i] = RetainedCells[i]
              /\ IsolatedGap(i) =>
                    gap_free_lai[i] =
                        RDiv(RAdd(RetainedCells[i - 1], RetainedCells[i + 1]),
                             RInt(2))

\* a matrix was returned in which an inner cell with two non-missing
\* neighbours had been missing
C15_Witness ==
    /\ ReturnedPair
    /\ \E i \in 1..Len(RetainedCells) : IsolatedGap(i)

\* number of calendar years the observations span
YearsSpanned == LastYear - FirstYear + 1

\* C16: for observations spanning Y calendar years the retained matrix has
\* max(Y - 2, 0) rows of 46 cells, and cell s of row k is the calendar slot
\* s of year (first year + 1 + k), both before the fill and as returned.
C16_InnerYears ==
    pc = "regular" =>
        LET first == FirstYear
            rows == IF YearsSpanned > 2 THEN YearsSpanned - 2 ELSE 0
        IN  /\ Len(RetainedCells) = 46 * rows
            /\ ReturnedPair => Len(gap_free_lai) = 46 * rows
            /\ \A k \in 0..(rows - 1) :
                  LET jan1 == Jan1(first + 1 + k)
                  IN  \A s \in 0..45 :
                         LET c == 46 * (k + 1) + s + 1
                         IN  /\ all_time[c] = jan1 + 8 * s
                             /\ RetainedCells[46 * k + s + 1] = temp_array[c]
                             /\ (ReturnedPair /\ ~IsNaN(temp_array[c])) =>
                                   gap_free_lai[46 * k + s + 1]
                                       = temp_array[c]

\* a matrix of one row was returned for observations spanning three years
C16_Witness ==
    /\ ReturnedPair
    /\ YearsSpanned = 3
    /\ Len(gap_free_lai) = 46

\* ------------------------------------------------------------------------
\* Properties of rolling_mean (specification SpecRoll)
\* ------------------------------------------------------------------------
\* the 0-based indices j with max(0, i - 6) <= j <= min(n - 1, i + 6)
Window13(i, n) == {j \in 0..(n - 1) : i - 6 <= j /\ j <= i + 6}

\* sum of s[j + 1] over the 0-based indices j < m that belong to S
RECURSIVE SumOver(_, _, _)
SumOver(s, S, m) ==
    IF m = 0 THEN Zero
    ELSE IF (m - 1) \in S THEN RAdd(SumOver(s, S, m - 1), s[m])
    ELSE SumOver(s, S, m - 1)

\* C18: a call rolling_mean(array, 13) returns an array of the same length
\* whose element i is the arithmetic mean of the input elements j with
\* max(0, i - 6) <= j <= min(n - 1, i + 6), and leaves the input unchanged.
C18_CentredWindow ==
    [][(pc = "roll" /\ pc' = "rolled") =>
          /\ array' = array
          /\ Len(roll_result') = Len(array)
          /\ \A i \in 0..(Len(array) - 1) :
                LET W == Window13(i, Len(array))
                IN  roll_result'[i + 1] =
                        RDiv(SumOver(array, W, Len(array)),
                             RInt(Cardinality(W)))]_vars

\* the call returned for an array that has a full window of 13 entries and
\* windows cut at its start and at its end
C18_Witness ==
    /\ pc = "rolled"
    /\ Len(array) >= 13
    /\ \E i \in 1..Len(array) : roll_result[i] = Rat(1, 13)
    /\ \E i \in 1..Len(array) : roll_result[i] = Rat(1, 7)

\* ------------------------------------------------------------------------
\* Properties of smoothing_LAI (specification SpecSmooth)
\* ------------------------------------------------------------------------
\* smoothing_LAI has returned for a matrix with at least one year row and no
\* missing cell
SmoothedFull ==
    /\ pc = "smoothed"
    /\ Len(gap_free_lai) > 0
    /\ \A i \in 1..Len(gap_free_lai) : ~IsNaN(gap_free_lai[i])

\* number of year rows of the matrix
YearRows == Len(gap_free_lai) \div 46

\* sum of the cells of slot s over the first y year rows
RECURSIVE SlotSum(_, _)
SlotSum(s, y) ==
    IF y = 0 THEN Zero
    ELSE RAdd(SlotSum(s, y - 1), gap_free_lai[46 * (y - 1) + s])

\* raw climatology: mean of the cells of slot s over the year rows
RawClimatology(s) == RDiv(SlotSum(s, YearRows), RInt(YearRows))

\* original anomaly of cell i: the cell minus the raw climatology of its slot
OriginalAnomaly(i) == RSub(gap_free_lai[i], RawClimatology(SlotOf(i)))

EqualRows ==
    \A i \in 1..Len(gap_free_lai) : gap_free_lai[i] = gap_free_lai[SlotOf(i)]

\* the first year row is a polynomial of degree at most 3 of the slot: its
\* fourth differences are 0
CubicRow ==
    \A s \in 1..42 :
        LET v == gap_free_lai
        IN  RAdd(RSub(v[s + 4], RMul(RInt(4), v[s + 3])),
                 RAdd(RSub(RMul(RInt(6), v[s + 2]), RMul(RInt(4), v[s + 1])),
                      v[s])) = Zero

SlotCells(s) == [y \in 1..YearRows |-> gap_free_lai[46 * (y - 1) + s]]

\* raw per-slot mean over the year rows, ignoring missing cells
RawSlotMean(s) ==
    LET cells == SlotCells(s)
        S == {y \in 0..(YearRows - 1) : ~IsNaN(cells[y + 1])}
    IN  IF S = {} THEN NaN
        ELSE RDiv(SumOver(cells, S, YearRows), RInt(Cardinality(S)))

\* the matrix minus the raw per-slot mean, flattened
RawAnomaly ==
    [i \in 1..Len(gap_free_lai) |->
        RSub(gap_free_lai[i], RawSlotMean(SlotOf(i)))] \o <<>>

PipeEnded == pc \in {"returned", "error"}

\* every pixel at every step has QC = 0, std = 0.5 and LAI = 3.0
ConstantInput ==
    /\ Len(lai_pixel) > 0
    /\ \A t \in 1..Len(lai_pixel) : \A p \in 1..NPix :
          /\ lai_pixel[t][p] = RInt(3)
          /\ sd_pixel[t][p] = Rat(1, 2)
          /\ qc_pixel[t][p] = 0

\* x is 3.0 to within 0.01
Near3(x) ==
    /\ ~IsNaN(x)
    /\ ~RLess(x, Rat(299, 100))
    /\ ~RGreater(x, Rat(301, 100))

\* C20: for 2 years of input in which every pixel at every step has QC = 0,
\* std = 0.5 and LAI = 3.0, get_LAI completes and every element but the
\* last of its reconstructed 8-day series is 3.0 to within 0.01.
C20_ConstantScenario ==
    (PipeEnded /\ ConstantInput /\ YearsSpanned = 2) =>
        /\ pc = "returned"
        /\ \A i \in 1..(Len(smoothed_lai) - 1) : Near3(smoothed_lai[i])

\* first half-hour of the returned array: start_date, or the midnight of the
\* first retained calendar date when that is later
FirstStamp ==
    IF start_date > Midnight(selected_dates[1]) THEN start_date
    ELSE Midnight(selected_dates[1])

\* index of the latest retained calendar date that is not after half-hour t
LatestDate(t) ==
    MaxOf({j \in 1..Len(selected_dates) : Midnight(selected_dates[j]) <= t})

\* C21: every value of the returned array is the reconstructed 8-day value
\* at the latest calendar date not after its timestamp (after the last date
\* the last value), and every timestamp lies in [start_date, end_date].
C21_StepHold ==
    pc = "returned" =>
        \A k \in 1..Len(lai_array) :
            LET t == FirstStamp + k - 1
            IN  /\ start_date <= t
                /\ t <= end_date
                /\ lai_array[k] = smoothed_lai[LatestDate(t)]

\* end_date is earlier than every retained calendar date
EndBeforeDates ==
    /\ ret = "tuple"
    /\ Len(selected_dates) > 0
    /\ \A j \in 1..Len(selected_dates) : end_date < Midnight(selected_dates[j])

\* C22: a call of get_LAI whose end_date is earlier than every retained
\* calendar date returns an empty array and raises no error.
C22_EmptyBeforeDates ==
    (PipeEnded /\ EndBeforeDates) => (pc = "returned" /\ lai_array = <<>>)

\* ------------------------------------------------------------------------
\* Properties of the pixel grids (specification Spec)
\* ------------------------------------------------------------------------
\* the three grids have the same number of rows, each of NPix cells
SameShape ==
    /\ Len(lai_pixel) = Len(sd_pixel)
    /\ Len(sd_pixel) = Len(qc_pixel)
    /\ \A t \in 1..Len(lai_pixel) :
          /\ Len(lai_pixel[t]) = NPix
          /\ Len(sd_pixel[t]) = NPix
          /\ Len(qc_pixel[t]) = NPix

\* C23: the LAI, sd and QC grids have the identical shape [N, 9] and no
\* stage, get_spatial_weighted_LAI included, changes a cell of a grid.
C23_GridsImmutable ==
    [][/\ SameShape
       /\ lai_pixel' = lai_pixel
       /\ sd_pixel' = sd_pixel
       /\ qc_pixel' = qc_pixel]_vars

\* ------------------------------------------------------------------------
\* Properties of the head of get_LAI (specification SpecRead)
\* ------------------------------------------------------------------------
\* the tables that were found
TablesFound ==
    {f[1] : f \in {g \in {lai_file, qc_file, sd_file} : g # <<>>}}

\* the distinct pixel identifiers present in the tables
PixelsPresent ==
    UNION {{table[i].pixel : i \in 1..Len(table)} : table \in TablesFound}

\* C24: the number of time steps read per pixel is the minimum row count of
\* the three tables divided by the number of distinct pixel identifiers
\* present in them.
C24_StepsPerDistinctPixel ==
    no_tsteps # -1 =>
        no_tsteps = MinOf({Len(table) : table \in TablesFound})
                        \div Cardinality(PixelsPresent)

\* a selected pixel is absent from a table, or a file is missing
MissingOrAbsent ==
    \/ \E g \in {lai_file, qc_file, sd_file} : g = <<>>
    \/ \E table \in TablesFound : \E idx \in 1..NPix :
          RowsOf(table, pixel_no[idx]) = <<>>

\* C25: with a source file missing or a selected pixel absent from a table
\* get_LAI ends in an error of its head: no later stage is reached.
C25_FailsBeforeStages ==
    MissingOrAbsent => pc \in {"read", "error"}

\* number of calendar dates found among the observation timestamps
FoundDates ==
    Cardinality({i \in 1..Len(all_time) : IsIn(all_time, lai_time)[i]})

\* C29: when check_data_availability_LAI copies the interpolated series
\* onto the calendar, the number of calendar dates found among the
\* timestamps of the reference pixel does not exceed the length of the
\* series, so the copy reads no index beyond its end.
C29_CopyWithinSeries ==
    all_time # <<>> => FoundDates <= Len(filled_lai)

\* ------------------------------------------------------------------------
\* Frame of interpolate_NA_LAI (specification Spec)
\* ------------------------------------------------------------------------
\* entries that interpolate_NA_LAI has no reason to change: not missing, not
\* negative and not the final one
KeptEntries(s) ==
    {i \in 1..(Len(s) - 1) : ~IsNaN(s[i]) /\ ~RLess(s[i], Zero)}

\* C28: a call of interpolate_NA_LAI that returns leaves its input array as
\* it was, returns an array of the same length, and returns every entry that
\* is not missing, not negative and not the final one unchanged at its index.
C28_ChangesOnlyNeeded ==
    [][(pc = "interp" /\ pc' = "filled") =>
           /\ weighted_lai' = weighted_lai
           /\ Len(filled_lai') = Len(weighted_lai)
           /\ \A i \in KeptEntries(weighted_lai) :
                 filled_lai'[i] = weighted_lai[i]]_vars

\* the call returned for an input with a missing entry, a negative entry and
\* entries to keep, the first one among them
C28_Witness ==
    /\ pc = "filled"
    /\ \E i \in 1..Len(weighted_lai) : IsNaN(weighted_lai[i])
    /\ \E i \in 1..Len(weighted_lai) : RLess(weighted_lai[i], Zero)
    /\ 1 \in KeptEntries(weighted_lai)
    /\ filled_lai # weighted_lai

\* last half-hour of the returned array: end_date, or 2023-12-31 23:30 when
\* that is earlier
LastStamp ==
    IF end_date < end_date_extend THEN end_date ELSE end_date_extend

\* number of half-hours from FirstStamp to LastStamp
StampCount ==
    IF LastStamp < FirstStamp THEN 0 ELSE LastStamp - FirstStamp + 1

\* the requested window lies between the first retained calendar date and
\* 2023-12-31 23:30
WindowInside ==
    /\ Midnight(selected_dates[1]) <= start_date
    /\ start_date <= end_date
    /\ end_date <= end_date_extend

NonNegBefore(a, i) == {j \in 1..(i - 1) : ~RLess(a[j], Zero)}

NonNegAfter(a, i) == {j \in (i + 1)..Len(a) : ~RLess(a[j], Zero)}

\* C27: a call of replace_negative_with_mean_of_nearest returns; it leaves
\* every non-negative element as it was and no negative element in the
\* array, at the first and the last index and inside runs of negatives too;
\* a negative element with a non-negative element on either side becomes
\* the mean of the nearest of each side.
C27_NoNegativeLeft ==
    [][pc = "replace" =>
           /\ pc' = "replaced"
           /\ Len(RH') = Len(RH)
           /\ \A i \in 1..Len(RH) :
                 IF RLess(RH[i], Zero)
                 THEN /\ ~RLess(RH'[i], Zero)
                      /\ (NonNegBefore(RH, i) # {} /\ NonNegAfter(RH, i) # {})
                           => RH'[i] =
                                 RDiv(RAdd(RH[MaxOf(NonNegBefore(RH, i))],
                                           RH[MinOf(NonNegAfter(RH, i))]),
                                      RInt(2))
                 ELSE RH'[i] = RH[i]]_vars

\* ------------------------------------------------------------------------
\* Properties of the loop over the stations (specification SpecLoop)
\* ------------------------------------------------------------------------
\* the processing of a station has raised an exception
StationFailed == \E k \in started : station_dict[k] # ""

\* C26: once the processing of a station has raised an error, every station
\* of station_dict is still processed: the error ends that station only.
C26_RemainingProcessed ==
    StationFailed ~> (started = DOMAIN station_dict)

====
